---- MODULE Spec2Model ----
(***************************************************************************)
(* Valuation engine of moneyclip: the multi-currency conversion resolver   *)
(* (fx_convert, fx_graph_for, build_fx_graph in src/src/utils.rs) and its  *)
(* process-wide graph cache FX_GRAPH_CACHE; and the FIFO tax-lot matching   *)
(* (match_sell_against_lots, realized_gains in                             *)
(* src/src/commands/portfolio.rs).                                         *)
(*                                                                         *)
(* Decimal values are exact rationals <<n, d>> with d > 0 in lowest terms. *)
(* The stored rates are drawn from values whose reciprocal is exact in a   *)
(* 28-digit Decimal (0.5, 4), so rational arithmetic and Decimal           *)
(* arithmetic agree on every value the model computes below DECIMAL_MAX.   *)
(***************************************************************************)
EXTENDS Integers, Sequences, FiniteSets, TLC

(***************************************************************************)
(* Bounds of the model.                                                    *)
(***************************************************************************)
\* Largest as-of date and row date (dates are day numbers 1..MaxDate).
MaxDate == 2
\* Largest number of rows of a persisted rate table drawn at start-up.
MaxRows == 3
\* Stand-in for Decimal::MAX (about 7.9e28): a product above it overflows.
\* Every amount reached along a path that repeats no currency stays below it.
DECIMAL_MAX == 2000
\* Largest value of sqlite3_total_changes a connection is driven to.
MaxChanges == 2
\* Number of as-of dates used to fill the cache beyond its capacity.
MaxLruDate == 34
\* Largest number of rows one write transaction upserts.
MaxBatch == 2

\* Largest trade date (trade dates are day numbers 1..MaxDay).
MaxDay == 3
\* Largest number of rows of a persisted trades table drawn at start-up.
MaxTrades == 3
\* Stand-in for the 28 fractional digits a Decimal quotient is rounded to.
DecimalScale == 2

\* utils.rs:130
MAX_FX_GRAPH_CACHE_DATES == 32

(***************************************************************************)
(* Decimal arithmetic (rust_decimal), as exact rationals.                  *)
(***************************************************************************)
Abs(n) == IF n < 0 THEN -n ELSE n

RECURSIVE Gcd(_, _)
Gcd(a, b) == IF b = 0 THEN a ELSE Gcd(b, a % b)

Norm(n, d) ==
    IF n = 0 THEN <<0, 1>>
    ELSE LET g == Gcd(Abs(n), d) IN <<n \div g, d \div g>>

ZERO == <<0, 1>>
ONE == <<1, 1>>

DecMul(a, b) == Norm(a[1] * b[1], a[2] * b[2])
\* Decimal::ONE / rate, for rate > 0
DecInv(r) == <<r[2], r[1]>>
DecNeg(a) == <<-a[1], a[2]>>

DecAbsKeptSign(a) == a

DecAbs(a) == <<Abs(a[1]), a[2]>>
DecLt(a, b) == a[1] * b[2] < b[1] * a[2]
DecGt(a, b) == DecLt(b, a)
IsZero(a) == a[1] = 0
IsSignNegative(a) == a[1] < 0
\* the checked multiplication behind `*` fails above Decimal::MAX
MulOverflows(a, b) == DecGt(DecAbs(DecMul(a, b)), <<DECIMAL_MAX, 1>>)

(***************************************************************************)
(* Inputs: currency codes, dates, stored rates, amounts.                   *)
(***************************************************************************)
Currencies == {"CAD", "EUR", "GBP", "USD"}
\* byte order of the codes, the order of the rows of the partitioned query
CcyRank == [c \in Currencies |->
              CASE c = "CAD" -> 1 [] c = "EUR" -> 2 [] c = "GBP" -> 3 [] c = "USD" -> 4]
Dates == 1..MaxDate
\* stored rate strings "0", "0.5", "4"
Rates == {<<0, 1>>, <<1, 2>>, <<4, 1>>}
Amounts == {<<-10, 1>>, <<0, 1>>, <<10, 1>>}
\* (base, quote) pairs that rows are stored for
Pairs == {<<"USD", "CAD">>, <<"CAD", "USD">>, <<"USD", "GBP">>,
          <<"CAD", "GBP">>, <<"EUR", "GBP">>}

Row(d, b, q, r) == [date |-> d, base |-> b, quote |-> q, rate |-> r]
RowKeys == Dates \X Pairs
KeyOf(r) == <<r.date, <<r.base, r.quote>>>>

\* UNIQUE(date, base, quote)
UniqueKeys(T) == \A r1, r2 \in T : KeyOf(r1) = KeyOf(r2) => r1 = r2

RECURSIVE TablesOver(_, _)
\* every table with at most n rows whose keys are in K
TablesOver(K, n) ==
    IF K = {} \/ n = 0 THEN {{}}
    ELSE LET k == CHOOSE x \in K : TRUE
             rest == TablesOver(K \ {k}, n)
             less == TablesOver(K \ {k}, n - 1)
         IN rest \cup {T \cup {Row(k[1], k[2][1], k[2][2], r)} : T \in less, r \in Rates}

(***************************************************************************)
(* Results of fx_convert: Ok(value) or one of the errors.                  *)
(***************************************************************************)
Ok(v) == [kind |-> "Ok", value |-> v]
\* anyhow!("No FX rate path from {} to {} on or before {}")
NotConvertible(from_ccy, to_ccy, date) ==
    [kind |-> "NotConvertible", from |-> from_ccy, to |-> to_ccy, date |-> date]
\* ensure!(rate > 0, "FX rate for {}/{} on or before {} is not positive")
InvalidRate(base, quote, date) ==
    [kind |-> "InvalidRate", base |-> base, quote |-> quote, date |-> date]
\* panic!("Multiplication overflowed") of Decimal's `*`
Panic == [kind |-> "Panic"]

(***************************************************************************)
(* build_fx_graph: the rate graph of an as-of date.                        *)
(***************************************************************************)
SelectedRowsLatestOverall(T, date) ==
    {r \in T : \A r2 \in T : (r2.base = r.base /\ r2.quote = r.quote) => r2.date <= r.date}

\* the row with rn = 1 of every (base, quote) partition: latest date <= ?1
SelectedRows(T, date) ==
    {r \in T : /\ r.date <= date
               /\ \A r2 \in T : (r2.base = r.base /\ r2.quote = r.quote /\ r2.date <= date)
                                    => r2.date <= r.date}

RowBefore(r1, r2) ==
    \/ CcyRank[r1.base] < CcyRank[r2.base]
    \/ r1.base = r2.base /\ CcyRank[r1.quote] < CcyRank[r2.quote]

RECURSIVE RowSeq(_)
\* the selected rows in the order the query yields them: by partition key
RowSeq(S) ==
    IF S = {} THEN <<>>
    ELSE LET r == CHOOSE x \in S : \A y \in S \ {x} : RowBefore(x, y)
         IN <<r>> \o RowSeq(S \ {r})

RatePositiveSkipped(rate) == TRUE

\* rate > Decimal::ZERO
RatePositive(rate) == DecGt(rate, ZERO)

EmptyIndex == [c \in {} |-> 0]

\* currency_index.entry(ccy): the index of ccy, a new one on first sight
IndexOf(currency_index, adjacency, ccy) ==
    IF ccy \in DOMAIN currency_index THEN currency_index[ccy] ELSE Len(adjacency) + 1

WithCcy(currency_index, adjacency, ccy) ==
    IF ccy \in DOMAIN currency_index THEN currency_index
    ELSE (ccy :> (Len(adjacency) + 1)) @@ currency_index

WithNode(currency_index, adjacency, ccy) ==
    IF ccy \in DOMAIN currency_index THEN adjacency ELSE Append(adjacency, <<>>)

RECURSIVE BuildRows(_, _, _, _, _)
\* the `while let Some(row) = rows.next()?` loop
BuildRows(rows, i, adjacency, currency_index, date) ==
    IF i > Len(rows)
    THEN [ok |-> TRUE,
          graph |-> [adjacency |-> adjacency, currency_index |-> currency_index]]
    ELSE LET row == rows[i] IN
         IF ~RatePositive(row.rate)
         THEN [ok |-> FALSE, error |-> InvalidRate(row.base, row.quote, date)]
         ELSE LET base_idx == IndexOf(currency_index, adjacency, row.base)
                  ci1 == WithCcy(currency_index, adjacency, row.base)
                  adj1 == WithNode(currency_index, adjacency, row.base)
                  quote_idx == IndexOf(ci1, adj1, row.quote)
                  ci2 == WithCcy(ci1, adj1, row.quote)
                  adj2 == WithNode(ci1, adj1, row.quote)
                  adj3 == [adj2 EXCEPT ![base_idx] = Append(@, <<quote_idx, row.rate>>)]
                  adj4 == [adj3 EXCEPT ![quote_idx] = Append(@, <<base_idx, DecInv(row.rate)>>)]
              IN BuildRows(rows, i + 1, adj4, ci2, date)

build_fx_graph(T, date) == BuildRows(RowSeq(SelectedRows(T, date)), 1, <<>>, EmptyIndex, date)

(***************************************************************************)
(* fx_convert after the graph is at hand: the max-heap search.             *)
(***************************************************************************)
\* Ord of (Decimal, usize): by amount, then by index
EntryLt(e, f) == DecLt(e[1], f[1]) \/ (e[1] = f[1] /\ e[2] < f[2])

\* BinaryHeap::pop: the greatest entry. An entry is pushed only when it raises
\* best[idx], so no entry is ever pushed twice and the heap is a set.
HeapTop(heap) == CHOOSE e \in heap : \A f \in heap \ {e} : EntryLt(f, e)

RECURSIVE Relax(_, _, _, _, _)
\* for &(next_idx, rate) in &adjacency[idx] { ... }
Relax(arcs, i, current_amount, best, heap) ==
    IF i > Len(arcs) THEN [overflow |-> FALSE, best |-> best, heap |-> heap]
    ELSE LET next_idx == arcs[i][1]
             rate == arcs[i][2]
         IN IF MulOverflows(current_amount, rate)
            THEN [overflow |-> TRUE, best |-> best, heap |-> heap]
            ELSE LET next_amount == DecMul(current_amount, rate) IN
                 IF DecGt(next_amount, best[next_idx])
                 THEN Relax(arcs, i + 1, current_amount,
                            [best EXCEPT ![next_idx] = next_amount],
                            heap \cup {<<next_amount, next_idx>>})
                 ELSE Relax(arcs, i + 1, current_amount, best, heap)

SignedDropped(amount, current_amount) == current_amount

\* if amount.is_sign_negative() { -current_amount } else { current_amount }
Signed(amount, current_amount) ==
    IF IsSignNegative(amount) THEN DecNeg(current_amount) ELSE current_amount

\* the Err(...) after the loop and at the two index look-ups
NoPath(amount, from_ccy, to_ccy, date) == NotConvertible(from_ccy, to_ccy, date)

RECURSIVE SearchLoop(_, _, _, _)
\* while let Some((current_amount, idx)) = heap.pop() { ... }
SearchLoop(adjacency, best, heap, to_idx) ==
    IF heap = {} THEN [kind |-> "exhausted"]
    ELSE LET top == HeapTop(heap)
             current_amount == top[1]
             idx == top[2]
             rest == heap \ {top}
         IN IF DecLt(current_amount, best[idx]) THEN SearchLoop(adjacency, best, rest, to_idx)
            ELSE IF idx = to_idx THEN [kind |-> "found", amount |-> current_amount]
            ELSE LET r == Relax(adjacency[idx], 1, current_amount, best, rest)
                 IN IF r.overflow THEN [kind |-> "overflow"]
                    ELSE SearchLoop(adjacency, r.best, r.heap, to_idx)

\* fx_convert from the index look-ups on (utils.rs:146-202)
Resolve(graph, date, amount, from_ccy, to_ccy) ==
    IF from_ccy \notin DOMAIN graph.currency_index THEN NoPath(amount, from_ccy, to_ccy, date)
    ELSE IF to_ccy \notin DOMAIN graph.currency_index THEN NoPath(amount, from_ccy, to_ccy, date)
    ELSE LET from_idx == graph.currency_index[from_ccy]
             to_idx == graph.currency_index[to_ccy]
             magnitude == DecAbs(amount)
         IN IF IsZero(magnitude) THEN Ok(amount)
            ELSE LET best == [[k \in 1..Len(graph.adjacency) |-> ZERO] EXCEPT ![from_idx] = magnitude]
                     s == SearchLoop(graph.adjacency, best, {<<magnitude, from_idx>>}, to_idx)
                 IN CASE s.kind = "found" -> Ok(Signed(amount, s.amount))
                      [] s.kind = "overflow" -> Panic
                      [] OTHER -> NoPath(amount, from_ccy, to_ccy, date)

(***************************************************************************)
(* State: the persisted rate tables, the connections, the process-wide     *)
(* FX_GRAPH_CACHE and every connection's position in fx_convert.           *)
(***************************************************************************)
DBs == {1, 2}
Conns == {1, 2}
\* addresses the allocator hands out for sqlite3 handles
Handles == {1, 2}

VARIABLES
    table,     \* table[db]: the rows of fx_rates of database db
    conn,      \* conn[c]: open, db, handle, total_changes, data_version
    cache,     \* FX_GRAPH_CACHE: handle address -> FxGraphCacheEntry
    pc,        \* pc[c]: "idle", "build", "store", "done"; "tx" inside fetch_rates' transaction
    call,      \* call[c]: arguments and locals of the fx_convert in progress
    result,    \* result[c]: what the fx_convert returned (at "done")
    recency,   \* history: per handle, the cached dates by last use (insertion or hit)
    evicted,   \* history: the dates the last insertion evicted, each with the
               \* least recently used date at that moment
    created,   \* the number of databases created so far
    txn,       \* txn[c]: the write transaction connection c has open: the rows
               \* still to insert, the rows inserted, the stamps at its start
    discarded  \* history: the dates the entry held, before the last insertion,
               \* under a stamp other than the one the insertion read

VARIABLES
    trades,        \* the rows of the trades table (joined with assets)
    gpc,           \* position in realized_gains: "idle", "loop", "replay", "match", "done"
    frame,         \* year, the rows of the sell query, the index of the
                   \* current row, the prior-year sells still to replay
    lots_cache,    \* lots_cache: ticker -> the lots loaded for it
    pre_consumed,  \* pre_consumed: the tickers whose prior-year sells were replayed
    results,       \* results: the rows pushed so far
    outcome,       \* what realized_gains returned (at "done")
    matched,       \* history: the calls of match_sell_against_lots of this run
    previous       \* history: the year, the trades table and the result of the
                   \* last call whose result the caller kept

fxvars == <<table, conn, cache, pc, call, result, recency, evicted, created, txn,
           discarded>>
pfvars == <<trades, gpc, frame, lots_cache, pre_consumed, results, outcome, matched,
           previous>>
vars == <<table, conn, cache, pc, call, result, recency, evicted, created, txn,
          discarded,
          trades, gpc, frame, lots_cache, pre_consumed, results, outcome, matched,
          previous>>

Closed == [open |-> FALSE, db |-> 0, handle |-> 0, total_changes |-> 0, data_version |-> 0]
\* Connection::open: a new handle; no changes yet, PRAGMA data_version at its start value
Opened(db, h) == [open |-> TRUE, db |-> db, handle |-> h, total_changes |-> 0, data_version |-> 1]

NoCall == [date |-> 0, amount |-> ZERO, from |-> "", to |-> "", served |-> "none",
           graph |-> [adjacency |-> <<>>, currency_index |-> EmptyIndex]]
NoResult == [kind |-> "None"]

\* no transaction open
NoTxn == [todo |-> {}, written |-> {}, stamps |-> <<>>]

NoFrame == [year |-> 0, sells |-> <<>>, i |-> 0, prior |-> <<>>]

NoPrevious == [year |-> 0, trades |-> {}, outcome |-> NoResult]

\* no realized_gains call in progress
GainsIdle ==
    /\ gpc = "idle"
    /\ frame = NoFrame
    /\ lots_cache = [k \in {} |-> <<>>]
    /\ pre_consumed = {}
    /\ results = <<>>
    /\ outcome = NoResult
    /\ matched = <<>>

OpenHandles == {conn[c].handle : c \in {k \in Conns : conn[k].open}}

(***************************************************************************)
(* fx_graph_for: the read path and the write path.                         *)
(***************************************************************************)
StampValidVersionOnly(entry, current_version, change_count) ==
    entry.data_version = current_version

\* entry.data_version == current_version && entry.total_changes == change_count
StampValid(entry, current_version, change_count) ==
    entry.data_version = current_version /\ entry.total_changes = change_count

\* cache.get(&conn_key).filter(stamp).and_then(|entry| entry.graphs.get(&date))
IsHit(conn_key, current_version, change_count, date) ==
    /\ conn_key \in DOMAIN cache
    /\ StampValid(cache[conn_key], current_version, change_count)
    /\ date \in DOMAIN cache[conn_key].graphs

SeqWithout(s, x) == SelectSeq(s, LAMBDA y : y # x)

EvictNever(entry) == entry

RECURSIVE EvictOrderOnly(_)
EvictOrderOnly(entry) ==
    IF Len(entry.order) > MAX_FX_GRAPH_CACHE_DATES
    THEN EvictOrderOnly([entry EXCEPT !.order = Tail(@)])
    ELSE entry

RECURSIVE Evict(_)
\* while entry.order.len() > MAX { pop_front; graphs.remove }
Evict(entry) ==
    IF Len(entry.order) > MAX_FX_GRAPH_CACHE_DATES
    THEN LET oldest == Head(entry.order) IN
         Evict([entry EXCEPT !.order = Tail(@),
                             !.graphs = [d \in (DOMAIN @) \ {oldest} |-> @[d]]])
    ELSE entry

NewEntry(refreshed_version, refreshed_changes) ==
    [data_version |-> refreshed_version, total_changes |-> refreshed_changes,
     graphs |-> [d \in {} |-> 0], order |-> <<>>]

RefreshedStampOnly(entry, refreshed_version, refreshed_changes) ==
    [entry EXCEPT !.data_version = refreshed_version, !.total_changes = refreshed_changes]

\* if entry stamp != refreshed stamp { restamp; graphs.clear(); order.clear() }
Refreshed(entry, refreshed_version, refreshed_changes) ==
    IF entry.data_version # refreshed_version \/ entry.total_changes # refreshed_changes
    THEN NewEntry(refreshed_version, refreshed_changes)
    ELSE entry

\* order.retain(|d| d != &date); order.push_back(date); graphs.insert(date, graph)
Inserted(entry, date, graph) ==
    [entry EXCEPT !.order = Append(SeqWithout(@, date), date),
                  !.graphs = (date :> graph) @@ @]

\* the entry of conn_key after the write path (utils.rs:225-248)
Stored(conn_key, refreshed_version, refreshed_changes, date, graph) ==
    LET entry == IF conn_key \in DOMAIN cache THEN cache[conn_key]
                 ELSE NewEntry(refreshed_version, refreshed_changes)
    IN Evict(Inserted(Refreshed(entry, refreshed_version, refreshed_changes), date, graph))

SameCurrencyNever(from_ccy, to_ccy) == FALSE

\* if from_ccy == to_ccy
SameCurrency(from_ccy, to_ccy) == from_ccy = to_ccy

\* history: date becomes the most recently used date of handle h
Used(h, date) == Append(SeqWithout(IF h \in DOMAIN recency THEN recency[h] ELSE <<>>, date), date)

(***************************************************************************)
(* Actions.                                                                *)
(***************************************************************************)
\* fx_convert up to the cache look-up: the early return, a hit, or a miss
FxConvertBegin(c, date, amount, from_ccy, to_ccy) ==
    /\ pc[c] = "idle"
    /\ conn[c].open
    /\ LET conn_key == conn[c].handle
           current_version == conn[c].data_version
           change_count == conn[c].total_changes
           args == [NoCall EXCEPT !.date = date, !.amount = amount,
                                  !.from = from_ccy, !.to = to_ccy]
       IN IF SameCurrency(from_ccy, to_ccy)
          THEN /\ pc' = [pc EXCEPT ![c] = "done"]
               /\ call' = [call EXCEPT ![c] = args]
               /\ result' = [result EXCEPT ![c] = Ok(amount)]
               /\ UNCHANGED recency
          ELSE IF IsHit(conn_key, current_version, change_count, date)
          THEN /\ pc' = [pc EXCEPT ![c] = "done"]
               /\ call' = [call EXCEPT ![c] = [args EXCEPT !.served = "hit"]]
               /\ result' = [result EXCEPT ![c] =
                      Resolve(cache[conn_key].graphs[date], date, amount, from_ccy, to_ccy)]
               /\ recency' = (conn_key :> Used(conn_key, date)) @@ recency
          ELSE /\ pc' = [pc EXCEPT ![c] = "build"]
               /\ call' = [call EXCEPT ![c] = [args EXCEPT !.served = "miss"]]
               /\ UNCHANGED <<result, recency>>
    /\ UNCHANGED <<table, conn, cache, evicted, created>>
    /\ UNCHANGED <<txn, discarded>>
    /\ UNCHANGED pfvars

\* build_fx_graph(conn, date)?
FxBuild(c) ==
    /\ pc[c] = "build"
    /\ LET b == build_fx_graph(table[conn[c].db], call[c].date)
       IN IF b.ok
          THEN /\ call' = [call EXCEPT ![c].graph = b.graph]
               /\ pc' = [pc EXCEPT ![c] = "store"]
               /\ UNCHANGED result
          ELSE /\ result' = [result EXCEPT ![c] = b.error]
               /\ pc' = [pc EXCEPT ![c] = "done"]
               /\ UNCHANGED call
    /\ UNCHANGED <<table, conn, cache, recency, evicted, created>>
    /\ UNCHANGED <<txn, discarded>>
    /\ UNCHANGED pfvars

\* the stamp is read again, the graph is stored, fx_convert searches it
FxStore(c) ==
    /\ pc[c] = "store"
    /\ LET conn_key == conn[c].handle
           refreshed_version == conn[c].data_version
           refreshed_changes == conn[c].total_changes
           date == call[c].date
           old == IF conn_key \in DOMAIN cache THEN cache[conn_key]
                  ELSE NewEntry(refreshed_version, refreshed_changes)
           kept == Inserted(Refreshed(old, refreshed_version, refreshed_changes),
                            date, call[c].graph)
           entry == Stored(conn_key, refreshed_version, refreshed_changes, date, call[c].graph)
           gone == (DOMAIN kept.graphs) \ (DOMAIN entry.graphs)
           \* uses so far of the dates the insertion keeps or adds
           used == SelectSeq(Used(conn_key, date), LAMBDA d : d \in DOMAIN kept.graphs)
       IN /\ cache' = (conn_key :> entry) @@ cache
          /\ evicted' = {<<d, Head(used)>> : d \in gone}
          /\ discarded' = IF StampValid(old, refreshed_version, refreshed_changes)
                           THEN {} ELSE DOMAIN old.graphs
          /\ recency' = (conn_key :> SelectSeq(used, LAMBDA d : d \in DOMAIN entry.graphs))
                            @@ recency
          /\ result' = [result EXCEPT ![c] =
                 Resolve(call[c].graph, date, call[c].amount, call[c].from, call[c].to)]
    /\ pc' = [pc EXCEPT ![c] = "done"]
    /\ UNCHANGED <<table, conn, call, created, txn>>
    /\ UNCHANGED pfvars

\* the caller takes the result; the connection is free for the next call
FxReturn(c) ==
    /\ pc[c] = "done"
    /\ pc' = [pc EXCEPT ![c] = "idle"]
    /\ call' = [call EXCEPT ![c] = NoCall]
    /\ result' = [result EXCEPT ![c] = NoResult]
    /\ evicted' = {}
    /\ discarded' = {}
    /\ UNCHANGED <<table, conn, cache, recency, created, txn>>
    /\ UNCHANGED pfvars

\* INSERT OR REPLACE of every row of the batch, in one transaction
Upserted(T, rows) == {r \in T : \A n \in rows : KeyOf(n) # KeyOf(r)} \cup rows

\* a committed batch of rate rows written through connection c
InsertRates(c, rows) ==
    /\ pc[c] = "idle"
    /\ conn[c].open
    /\ rows # {}
    /\ UniqueKeys(rows)
    /\ conn[c].total_changes + Cardinality(rows) <= MaxChanges
    /\ table' = [table EXCEPT ![conn[c].db] = Upserted(@, rows)]
    /\ conn' = [k \in Conns |->
                  IF k = c THEN [conn[k] EXCEPT !.total_changes = @ + Cardinality(rows)]
                  ELSE IF conn[k].open /\ conn[k].db = conn[c].db
                       THEN [conn[k] EXCEPT !.data_version = @ + 1]
                       ELSE conn[k]]
    /\ UNCHANGED <<cache, pc, call, result, recency, evicted, created>>
    /\ UNCHANGED <<txn, discarded>>
    /\ UNCHANGED pfvars

\* drop(conn): the handle is freed; FX_GRAPH_CACHE keeps the entry of its address
CloseConn(c) ==
    /\ pc[c] = "idle"
    /\ conn[c].open
    /\ conn' = [conn EXCEPT ![c] = Closed]
    /\ UNCHANGED <<table, cache, pc, call, result, recency, evicted, created>>
    /\ UNCHANGED <<txn, discarded>>
    /\ UNCHANGED pfvars

\* Connection::open_in_memory: a new, empty database behind a new handle; the
\* allocator may hand out any address not in use
OpenConn(c, h) ==
    /\ ~conn[c].open
    /\ h \notin OpenHandles
    /\ created + 1 \in DBs
    /\ created' = created + 1
    /\ conn' = [conn EXCEPT ![c] = Opened(created + 1, h)]
    /\ UNCHANGED <<table, cache, pc, call, result, recency, evicted>>
    /\ UNCHANGED <<txn, discarded>>
    /\ UNCHANGED pfvars

(***************************************************************************)
(* SpecFx: one `moneyclip fx convert` run. The process starts with an      *)
(* empty cache on a rate table earlier runs have written, and converts.    *)
(***************************************************************************)
CacheEmpty ==
    /\ cache = [h \in {} |-> 0]
    /\ pc = [c \in Conns |-> "idle"]
    /\ call = [c \in Conns |-> NoCall]
    /\ result = [c \in Conns |-> NoResult]
    /\ recency = [h \in {} |-> <<>>]
    /\ evicted = {}
    /\ discarded = {}
    /\ txn = [c \in Conns |-> NoTxn]

InitCommon ==
    /\ CacheEmpty
    /\ trades = {}
    /\ GainsIdle
    /\ previous = NoPrevious

InitFx ==
    /\ \E T \in TablesOver(RowKeys, MaxRows) :
           table = [db \in DBs |-> IF db = 1 THEN T ELSE {}]
    /\ conn = [c \in Conns |-> IF c = 1 THEN Opened(1, 1) ELSE Closed]
    /\ created = 1
    /\ InitCommon

NextFx ==
    \/ \E date \in Dates, amount \in Amounts, from_ccy \in Currencies, to_ccy \in Currencies :
           FxConvertBegin(1, date, amount, from_ccy, to_ccy)
    \/ FxBuild(1)
    \/ FxStore(1)

SpecFx == InitFx /\ [][NextFx]_vars

(***************************************************************************)
(* Reference notions the claims are stated with.                           *)
(***************************************************************************)
\* what fx_convert returns when the graph is rebuilt from the rate table T
FxConvertFresh(T, date, amount, from_ccy, to_ccy) ==
    IF SameCurrency(from_ccy, to_ccy) THEN Ok(amount)
    ELSE LET b == build_fx_graph(T, date)
         IN IF b.ok THEN Resolve(b.graph, date, amount, from_ccy, to_ccy) ELSE b.error

\* the arcs of the as-of date: <<from, to, weight>>, forward and reverse
Arcs(T, date) ==
    {<<r.base, r.quote, r.rate>> : r \in SelectedRows(T, date)}
        \cup {<<r.quote, r.base, DecInv(r.rate)>> : r \in SelectedRows(T, date)}

RECURSIVE ReachFrom(_, _)
ReachFrom(S, A) ==
    LET N == S \cup {a[2] : a \in {x \in A : x[1] \in S}}
    IN IF N = S THEN S ELSE ReachFrom(N, A)

\* to_ccy can be reached from from_ccy over the arcs of the as-of date
Reachable(T, date, from_ccy, to_ccy) ==
    /\ \E a \in Arcs(T, date) : a[1] = from_ccy
    /\ to_ccy \in ReachFrom({from_ccy}, Arcs(T, date))

RECURSIVE PathProducts(_, _, _, _)
\* the products of the arc weights of the simple paths from u to to_ccy
PathProducts(A, u, to_ccy, visited) ==
    IF u = to_ccy THEN {ONE}
    ELSE UNION {{DecMul(a[3], p) : p \in PathProducts(A, a[2], to_ccy, visited \cup {a[2]})}
                  : a \in {x \in A : x[1] = u /\ x[2] \notin visited}}

DecMax(S) == CHOOSE m \in S : \A x \in S : ~DecLt(m, x)

BestFactor(T, date, from_ccy, to_ccy) ==
    DecMax(PathProducts(Arcs(T, date), from_ccy, to_ccy, {from_ccy}))

AllRatesPositive(T) == \A r \in T : r.rate[1] > 0

\* a row selected for the as-of date carries a rate <= 0
SelectsNonPositive(T, date) ==
    \E r \in T : /\ r.date <= date
                 /\ r.rate[1] <= 0
                 /\ ~\E n \in T : n.base = r.base /\ n.quote = r.quote
                                  /\ n.date <= date /\ n.date > r.date

Returned(c) == pc[c] = "done"
TableOf(c) == table[conn[c].db]

(***************************************************************************)
(* Claims about the value fx_convert returns (SpecFx).                     *)
(***************************************************************************)
\* C1: with positive rates and `to` reachable from `from` (from != to), a
\* positive amount is converted along the best simple path: what fx_convert
\* returns is the amount times the greatest product of arc weights over all
\* simple paths. (Stated of the calls that return; a search that overflows
\* returns nothing.)
C1_BestPathChosen ==
    \A c \in Conns :
        (/\ Returned(c)
         /\ result[c] # Panic
         /\ call[c].from # call[c].to
         /\ call[c].amount[1] > 0
         /\ AllRatesPositive(TableOf(c))
         /\ Reachable(TableOf(c), call[c].date, call[c].from, call[c].to))
        => result[c] = Ok(DecMul(call[c].amount,
                                 BestFactor(TableOf(c), call[c].date, call[c].from, call[c].to)))

\* C3: fx_convert(0, d, A, B) returns 0 for all currencies A, B and dates d.
C3_ZeroConvertsToZero ==
    \A c \in Conns :
        (Returned(c) /\ IsZero(call[c].amount)) => result[c] = Ok(ZERO)

\* C4: fx_convert(x, d, C, C) returns x unchanged, whatever the rate table holds.
C4_SameCurrencyUnchanged ==
    \A c \in Conns :
        (Returned(c) /\ call[c].from = call[c].to) => result[c] = Ok(call[c].amount)

\* C4 witness: a negative amount converted to its own currency, on a table
\* whose selected rows include a rate that is not positive.
C4_Witness ==
    /\ Returned(1)
    /\ call[1].from = call[1].to
    /\ call[1].amount[1] < 0
    /\ SelectsNonPositive(TableOf(1), call[1].date)
    /\ result[1] = Ok(call[1].amount)

\* C7: with from != to and a non-zero amount, fx_convert fails with
\* NotConvertible(from, to, date) whenever `to` is unreachable from `from` in
\* the graph of the date, a currency absent from the graph included.
C7_UnreachableNotConvertible ==
    \A c \in Conns :
        (/\ Returned(c)
         /\ call[c].from # call[c].to
         /\ ~IsZero(call[c].amount)
         /\ build_fx_graph(TableOf(c), call[c].date).ok
         /\ ~Reachable(TableOf(c), call[c].date, call[c].from, call[c].to))
        => result[c] = NotConvertible(call[c].from, call[c].to, call[c].date)

\* C8: if the row selected for any pair (the latest on or before the as-of
\* date) has a rate <= 0, fx_convert with from != to fails with InvalidRate.
C8_NonPositiveRateRejected ==
    \A c \in Conns :
        (/\ Returned(c)
         /\ call[c].from # call[c].to
         /\ SelectsNonPositive(TableOf(c), call[c].date))
        => result[c].kind = "InvalidRate"

\* C8 witness: the selected row of a pair has rate 0 although an older row of
\* the pair is positive, and the conversion failed with InvalidRate.
C8_Witness ==
    /\ Returned(1)
    /\ call[1].from # call[1].to
    /\ result[1].kind = "InvalidRate"
    /\ \E r \in TableOf(1), o \in TableOf(1) :
          /\ r.rate[1] <= 0 /\ r.date = call[1].date
          /\ o.base = r.base /\ o.quote = r.quote /\ o.date < r.date /\ o.rate[1] > 0

\* C9: the sign of the input is reapplied: converting -x gives the negation
\* of converting x (and fails exactly when converting x fails).
C9_SignReapplied ==
    \A c \in Conns :
        Returned(c) =>
            LET neg == FxConvertFresh(TableOf(c), call[c].date, DecNeg(call[c].amount),
                                      call[c].from, call[c].to)
            IN IF result[c].kind = "Ok"
               THEN neg = Ok(DecNeg(result[c].value))
               ELSE neg = result[c]

\* C9 witness: a negative amount converted between two different currencies
\* over a path of two arcs, giving a negative result.
C9_Witness ==
    /\ Returned(1)
    /\ call[1].from # call[1].to
    /\ call[1].amount[1] < 0
    /\ result[1].kind = "Ok"
    /\ result[1].value[1] < 0
    /\ ~\E a \in Arcs(TableOf(1), call[1].date) : a[1] = call[1].from /\ a[2] = call[1].to

(***************************************************************************)
(* Spec: one process with one connection that writes rates and converts,   *)
(* one call after the other (a Connection is not Sync).                    *)
(***************************************************************************)
\* the rows the writes choose from: rates quoted against USD
WriteRows == {Row(d, "USD", q, r) : d \in Dates, q \in {"CAD", "GBP"}, r \in Rates}

Batches == {B \in SUBSET WriteRows : B # {} /\ Cardinality(B) <= MaxBatch /\ UniqueKeys(B)}

CallCurrencies == {"CAD", "GBP", "USD"}
CallAmounts == {<<10, 1>>}

Init ==
    /\ table = [db \in DBs |-> {}]
    /\ conn = [c \in Conns |-> IF c = 1 THEN Opened(1, 1) ELSE Closed]
    /\ created = 1
    /\ InitCommon

Next ==
    \/ \E rows \in Batches : InsertRates(1, rows)
    \/ \E date \in Dates, amount \in CallAmounts,
          from_ccy \in CallCurrencies, to_ccy \in CallCurrencies :
           FxConvertBegin(1, date, amount, from_ccy, to_ccy)
    \/ FxBuild(1)
    \/ FxStore(1)
    \/ FxReturn(1)

Spec == Init /\ [][Next]_vars

\* C2: on one connection, whatever writes and calls came before, every
\* fx_convert returns what it would return with the graph rebuilt from the
\* current rate table: hits, misses and invalidations never change the result.
C2_CacheTransparent ==
    \A c \in Conns :
        Returned(c) =>
            result[c] = FxConvertFresh(TableOf(c), call[c].date, call[c].amount,
                                       call[c].from, call[c].to)

\* C2 witness: a date is cached, a later write changed its graph, and the
\* call for that date has missed and rebuilt a graph that differs from the
\* one still sitting in the cache under the old stamp.
C2_Witness ==
    /\ pc[1] = "store"
    /\ conn[1].handle \in DOMAIN cache
    /\ call[1].date \in DOMAIN cache[conn[1].handle].graphs
    /\ cache[conn[1].handle].graphs[call[1].date] # call[1].graph
    /\ cache[conn[1].handle].total_changes < conn[1].total_changes

(***************************************************************************)
(* SpecRace: two connections to the same database, each used by its own    *)
(* thread; a commit of one advances the other's PRAGMA data_version.       *)
(***************************************************************************)
RaceRows == {Row(1, "USD", "CAD", r) : r \in Rates \ {ZERO}}
RaceBatches == {{r} : r \in RaceRows}

InitRace ==
    /\ table = [db \in DBs |-> {}]
    /\ conn = [c \in Conns |-> Opened(1, c)]
    /\ created = 1
    /\ InitCommon

NextRace ==
    \E c \in Conns :
        \/ \E rows \in RaceBatches : InsertRates(c, rows)
        \/ \E amount \in CallAmounts : FxConvertBegin(c, 1, amount, "USD", "CAD")
        \/ FxBuild(c)
        \/ FxStore(c)
        \/ FxReturn(c)

SpecRace == InitRace /\ [][NextRace]_vars

\* C5: a graph the cache would serve to a connection (its entry carries the
\* connection's current stamp) is the graph build_fx_graph produces from the
\* rate table as committed, also when another connection commits a write
\* while fx_graph_for is between building and reading the stamp again.
C5_NoStaleGraphServed ==
    \A c \in Conns :
        (/\ conn[c].open
         /\ conn[c].handle \in DOMAIN cache
         /\ StampValid(cache[conn[c].handle], conn[c].data_version, conn[c].total_changes))
        => \A d \in DOMAIN cache[conn[c].handle].graphs :
               LET b == build_fx_graph(TableOf(c), d)
               IN b.ok /\ b.graph = cache[conn[c].handle].graphs[d]

(***************************************************************************)
(* SpecReuse: a process that opens a connection to a new database, uses    *)
(* it, closes it and opens the next one, possibly at the same address.     *)
(***************************************************************************)
ReuseRows == {Row(1, "USD", "CAD", r) : r \in Rates \ {ZERO}}
ReuseBatches == {{r} : r \in ReuseRows}

InitReuse ==
    /\ table = [db \in DBs |-> {}]
    /\ conn = [c \in Conns |-> Closed]
    /\ created = 0
    /\ InitCommon

NextReuse ==
    \/ \E h \in Handles : OpenConn(1, h)
    \/ CloseConn(1)
    \/ \E rows \in ReuseBatches : InsertRates(1, rows)
    \/ \E amount \in CallAmounts : FxConvertBegin(1, 1, amount, "USD", "CAD")
    \/ FxBuild(1)
    \/ FxStore(1)
    \/ FxReturn(1)

SpecReuse == InitReuse /\ [][NextReuse]_vars

\* C6: the cache is keyed by store identity: fx_convert on a connection
\* returns values computed only from the rate table of the database that
\* connection is open on, also after an earlier connection to another
\* database was closed and its handle address is in use again.
C6_OwnStoreOnly ==
    \A c \in Conns :
        (Returned(c) /\ conn[c].open /\ conn[c].db \in DBs) =>
            result[c] = FxConvertFresh(table[conn[c].db], call[c].date, call[c].amount,
                                       call[c].from, call[c].to)

(***************************************************************************)
(* SpecLru: one connection converting for more as-of dates than the cache  *)
(* holds: ever later dates, and the earliest date again and again.         *)
(***************************************************************************)
LruTable == {Row(1, "USD", "CAD", <<4, 1>>)}

\* the as-of dates the next call chooses from
LruDates ==
    LET cached == IF 1 \in DOMAIN cache THEN DOMAIN cache[1].graphs ELSE {}
        top == IF cached = {} THEN 0 ELSE CHOOSE m \in cached : \A d \in cached : d <= m
    IN {1} \cup {IF top < MaxLruDate THEN top + 1 ELSE MaxLruDate}

InitLru ==
    /\ table = [db \in DBs |-> IF db = 1 THEN LruTable ELSE {}]
    /\ conn = [c \in Conns |-> IF c = 1 THEN Opened(1, 1) ELSE Closed]
    /\ created = 1
    /\ InitCommon

NextLru ==
    \/ \E date \in LruDates, amount \in CallAmounts :
           FxConvertBegin(1, date, amount, "USD", "CAD")
    \/ FxBuild(1)
    \/ FxStore(1)
    \/ FxReturn(1)

SpecLru == InitLru /\ [][NextLru]_vars

\* C10: when an insertion makes a store's cache exceed 32 dates, the date
\* evicted is the least recently used one, a use being an insertion or a
\* cache hit that served an fx_convert call.
C10_EvictsLeastRecentlyUsed ==
    \A e \in evicted : e[1] = e[2]

(***************************************************************************)
(* SpecBound: SpecLru with writes to the rate table between the calls,     *)
(* each arriving when the entry of the connection is full.                 *)
(***************************************************************************)
LruBatches == {{Row(1, "USD", "CAD", <<1, 2>>)}}

EntryFull ==
    /\ 1 \in DOMAIN cache
    /\ Cardinality(DOMAIN cache[1].graphs) = MAX_FX_GRAPH_CACHE_DATES

NextBound ==
    \/ \E rows \in LruBatches : EntryFull /\ InsertRates(1, rows)
    \/ \E date \in LruDates, amount \in CallAmounts :
           FxConvertBegin(1, date, amount, "USD", "CAD")
    \/ FxBuild(1)
    \/ FxStore(1)
    \/ FxReturn(1)

SpecBound == InitLru /\ [][NextBound]_vars

\* C11: whatever fx_convert calls and rate-table writes came before, no
\* entry of FX_GRAPH_CACHE holds more than MAX_FX_GRAPH_CACHE_DATES (32)
\* dates, in its graphs or in its recency queue.
C11_AtMostMaxDates ==
    \A h \in DOMAIN cache :
        /\ Cardinality(DOMAIN cache[h].graphs) <= MAX_FX_GRAPH_CACHE_DATES
        /\ Len(cache[h].order) <= MAX_FX_GRAPH_CACHE_DATES

\* C11 witness: the entry was full, a further date was inserted and the
\* insertion evicted a date, leaving the entry full.
C11_Witness ==
    /\ pc[1] = "done"
    /\ evicted # {}
    /\ Cardinality(DOMAIN cache[1].graphs) = MAX_FX_GRAPH_CACHE_DATES

(***************************************************************************)
(* Decimal arithmetic of the lot matcher. A quotient is rounded to         *)
(* DecimalScale fractional digits; the sums, differences and products the  *)
(* matcher forms of the values drawn below are exact.                      *)
(***************************************************************************)
DecAdd(a, b) == Norm(a[1] * b[2] + b[1] * a[2], a[2] * b[2])
DecSub(a, b) == DecAdd(a, DecNeg(b))
DecLe(a, b) == ~DecLt(b, a)

RECURSIVE Pow10(_)
Pow10(k) == IF k = 0 THEN 1 ELSE 10 * Pow10(k - 1)

\* n / d for d > 0, rounded to the nearest integer
RoundDiv(n, d) ==
    LET q == (2 * Abs(n) + d) \div (2 * d) IN IF n < 0 THEN -q ELSE q

\* a / b for b # 0
DecDiv(a, b) ==
    LET n == IF b[1] < 0 THEN -(a[1] * b[2]) ELSE a[1] * b[2]
        d == a[2] * Abs(b[1])
    IN Norm(RoundDiv(n * Pow10(DecimalScale), d), Pow10(DecimalScale))

(***************************************************************************)
(* The trades table and the three queries of realized_gains.               *)
(***************************************************************************)
Tickers == {"ABC", "XYZ"}
\* a.ticker in ORDER BY: "ABC" sorts before "XYZ"
TickerRank == [k \in Tickers |-> IF k = "ABC" THEN 1 ELSE 2]

Days == 1..MaxDay
\* day 1 is the last day of year 1, the later days lie in year 2
YearOf(d) == IF d = 1 THEN 1 ELSE 2
Years == {1, 2}
\* NaiveDate::from_ymd_opt(year_int, 1, 1)
YearStart(year) == IF year = 1 THEN 1 ELSE 2

Trade(date, ticker, quantity, price, fees, side) ==
    [date |-> date, ticker |-> ticker, quantity |-> quantity, price |-> price,
     fees |-> fees, side |-> side]

\* a < b for two tuples of integers of equal length
LexLt(a, b) ==
    \E i \in 1..Len(a) : a[i] < b[i] /\ \A j \in 1..(i - 1) : a[j] = b[j]

\* ORDER BY a.ticker, t.date; rows of equal ticker and date come out in the
\* order they were inserted in, taken to be by size of quantity, fees and
\* price (the order of insertion does not depend on the sign stored)
TradeKey(t) ==
    <<TickerRank[t.ticker], t.date, Abs(t.quantity[1]), t.fees[1], t.price[1]>>
TradeBeforeByDate(t1, t2) ==
    LexLt(<<t1.date>> \o TradeKey(t1), <<t2.date>> \o TradeKey(t2))

TradeBefore(t1, t2) == LexLt(TradeKey(t1), TradeKey(t2))

RECURSIVE TradeSeq(_)
TradeSeq(S) ==
    IF S = {} THEN <<>>
    ELSE LET first == CHOOSE t \in S : \A u \in S \ {t} : TradeBefore(t, u)
         IN <<first>> \o TradeSeq(S \ {first})

\* WHERE t.side='sell' AND substr(t.date,1,4)=?1 ORDER BY a.ticker, t.date
TargetSells(T, year) ==
    TradeSeq({t \in T : t.side = "sell" /\ YearOf(t.date) = year})

\* WHERE a.ticker=?1 AND t.side='buy' ORDER BY t.date
BuysOf(T, ticker) ==
    TradeSeq({t \in T : t.ticker = ticker /\ t.side = "buy"})

SellsBeforeOrOn(T, ticker, cutoff) ==
    TradeSeq({t \in T : t.ticker = ticker /\ t.side = "sell" /\ t.date <= cutoff})

\* WHERE a.ticker=?1 AND t.side='sell' AND t.date<?2 ORDER BY t.date
SellsBefore(T, ticker, cutoff) ==
    TradeSeq({t \in T : t.ticker = ticker /\ t.side = "sell" /\ t.date < cutoff})

(***************************************************************************)
(* Lots, sell records and the errors of the matcher.                       *)
(***************************************************************************)
Lot(date, qty, price, fees) ==
    [date |-> date, remaining |-> qty, original_qty |-> qty, price |-> price,
     fees |-> fees]

SellRecord(date, quantity, price, fees) ==
    [date |-> date, quantity |-> quantity, price |-> price, fees |-> fees]

\* "Sell of {} on {} exceeds available lot quantity before or on the sell date"
InsufficientLots(ticker, sell_date) ==
    [kind |-> "InsufficientLots", ticker |-> ticker, date |-> sell_date]

\* "No purchase lots dated on or before sell of {} on {}"
NoEligibleLots(ticker, sell_date) ==
    [kind |-> "NoEligibleLots", ticker |-> ticker, date |-> sell_date]

\* "No purchase lots available for sell of {} on {}"
NoPurchaseLots(ticker, sell_date) ==
    [kind |-> "NoEligibleLots", ticker |-> ticker, date |-> sell_date,
     lots |-> "none"]

BuyQtyKeptAlways(qty) == TRUE

\* load_buy_lots: if qty.is_zero() { continue }
BuyQtyKept(qty) == ~IsZero(qty)

load_buy_lots(T, ticker) ==
    LET kept == SelectSeq(BuysOf(T, ticker), LAMBDA t : BuyQtyKept(DecAbs(t.quantity)))
    IN [i \in 1..Len(kept) |->
           Lot(kept[i].date, DecAbs(kept[i].quantity), kept[i].price, kept[i].fees)]

\* load_sells_before: if qty.is_zero() { continue }
SellQtyKept(qty) == ~IsZero(qty)

load_sells_before(T, ticker, cutoff) ==
    LET kept == SelectSeq(SellsBefore(T, ticker, cutoff),
                          LAMBDA t : SellQtyKept(DecAbs(t.quantity)))
    IN [i \in 1..Len(kept) |->
           SellRecord(kept[i].date, DecAbs(kept[i].quantity), kept[i].price, kept[i].fees)]

(***************************************************************************)
(* match_sell_against_lots.                                                *)
(***************************************************************************)
LotAfterSellNever(lot_date, sell_date) == FALSE

\* if lot.date > sell_date { break }
LotAfterSell(lot_date, sell_date) == lot_date > sell_date

UseQtyAll(remaining, lot_remaining) == remaining

UseQtyUnit(remaining, lot_remaining) == ONE

\* let use_qty = if remaining < lot.remaining { remaining } else { lot.remaining }
UseQty(remaining, lot_remaining) ==
    IF DecLt(remaining, lot_remaining) THEN remaining ELSE lot_remaining

\* lot.fees * (use_qty / lot.original_qty)
BuyFeeShare(lot, use_qty) ==
    IF IsZero(lot.original_qty) THEN ZERO
    ELSE DecMul(lot.fees, DecDiv(use_qty, lot.original_qty))

FeeAllocationWhole(sell_fees, use_qty, total_qty) == sell_fees

\* sell_fees * (use_qty / total_qty)
FeeAllocation(sell_fees, use_qty, total_qty) ==
    IF IsZero(total_qty) THEN ZERO
    ELSE DecMul(sell_fees, DecDiv(use_qty, total_qty))

HasPriorLotAvailable(lots, sell_date) ==
    \E i \in 1..Len(lots) :
        lots[i].date <= sell_date /\ DecGt(lots[i].remaining, ZERO)

\* lots.iter().any(|lot| lot.date <= sell_date)
HasPriorLot(lots, sell_date) ==
    \E i \in 1..Len(lots) : lots[i].date <= sell_date

RECURSIVE MatchLoop(_, _, _, _, _, _, _, _)
\* for lot in lots.iter_mut() { ... }, from lot i on
MatchLoop(lots, i, sell_date, total_qty, sell_price, sell_fees, remaining, realized) ==
    IF i > Len(lots) \/ DecLe(remaining, ZERO)
    THEN [lots |-> lots, remaining |-> remaining, realized |-> realized]
    ELSE IF DecLe(lots[i].remaining, ZERO)
    THEN MatchLoop(lots, i + 1, sell_date, total_qty, sell_price, sell_fees,
                   remaining, realized)
    ELSE IF LotAfterSell(lots[i].date, sell_date)
    THEN [lots |-> lots, remaining |-> remaining, realized |-> realized]
    ELSE LET lot == lots[i]
             use_qty == UseQty(remaining, lot.remaining)
             buy_cost == DecAdd(DecMul(lot.price, use_qty), BuyFeeShare(lot, use_qty))
             sell_proceeds == DecSub(DecMul(sell_price, use_qty),
                                     FeeAllocation(sell_fees, use_qty, total_qty))
         IN MatchLoop([lots EXCEPT ![i].remaining = DecSub(@, use_qty)], i + 1,
                      sell_date, total_qty, sell_price, sell_fees,
                      DecSub(remaining, use_qty),
                      DecAdd(realized, DecSub(sell_proceeds, buy_cost)))

\* the lots as the call leaves them, and what the call returns
match_sell_against_lots(ticker, lots, sell_date, sell_qty, sell_price, sell_fees) ==
    IF IsZero(sell_qty) THEN [lots |-> lots, result |-> Ok(ZERO)]
    ELSE LET m == MatchLoop(lots, 1, sell_date, sell_qty, sell_price, sell_fees,
                            sell_qty, ZERO)
         IN [lots |-> m.lots,
             result |-> IF DecGt(m.remaining, ZERO)
                        THEN IF HasPriorLot(m.lots, sell_date)
                             THEN InsufficientLots(ticker, sell_date)
                             ELSE NoEligibleLots(ticker, sell_date)
                        ELSE Ok(m.realized)]

(***************************************************************************)
(* realized_gains, one action per step of its loop over the sell rows.     *)
(***************************************************************************)
\* a.currency of the asset
CurrencyOf(ticker) == "USD"

RealizedGainRow(ticker, sell_date, currency, realized_gain) ==
    [ticker |-> ticker, sell_date |-> sell_date, currency |-> currency,
     realized_gain |-> realized_gain]

LotsCacheKept(old) == old

\* let mut lots_cache: HashMap<String, Vec<Lot>> = HashMap::new();
NewLotsCache(old) == [k \in {} |-> <<>>]

\* history: one call of match_sell_against_lots
MatchCall(ticker, phase, sell, before, m) ==
    [ticker |-> ticker, phase |-> phase, sell |-> sell, before |-> before,
     after |-> m.lots, result |-> m.result]

SellQtyZeroNever(sell_qty) == FALSE

\* if sell_qty.is_zero() { results.push(zero row); continue }
SellQtyZero(sell_qty) == IsZero(sell_qty)

\* if lots.is_empty() { return Err(..) }
LotsEmpty(lots) == Len(lots) = 0

\* the queries are prepared, the sell query is run, the locals are empty
RealizedGainsBegin(year) ==
    /\ gpc = "idle"
    /\ gpc' = "loop"
    /\ frame' = [year |-> year, sells |-> TargetSells(trades, year), i |-> 1,
                 prior |-> <<>>]
    /\ lots_cache' = NewLotsCache(lots_cache)
    /\ pre_consumed' = {}
    /\ results' = <<>>
    /\ outcome' = NoResult
    /\ matched' = <<>>
    /\ UNCHANGED <<trades, previous>>
    /\ UNCHANGED fxvars

ErrWithRows(error, rows) == Ok(rows)

\* `return Err(..)` and `?` inside the loop: the error alone is returned,
\* the local results are dropped
Err(error, rows) == error

\* `for sell in sells`: the next row, up to the first call of the matcher,
\* or Ok(results) after the last row
GainsNextSell ==
    /\ gpc = "loop"
    /\ IF frame.i > Len(frame.sells)
       THEN /\ outcome' = Ok(results)
            /\ gpc' = "done"
            /\ UNCHANGED <<frame, lots_cache, pre_consumed, results>>
       ELSE LET sell == frame.sells[frame.i]
                ticker == sell.ticker
                sell_qty == DecAbs(sell.quantity)
                loaded == IF ticker \in DOMAIN lots_cache THEN lots_cache
                          ELSE (ticker :> load_buy_lots(trades, ticker)) @@ lots_cache
                prior_sells == load_sells_before(trades, ticker, YearStart(frame.year))
            IN IF SellQtyZero(sell_qty)
               THEN /\ results' = Append(results,
                          RealizedGainRow(ticker, sell.date, CurrencyOf(ticker), ZERO))
                    /\ frame' = [frame EXCEPT !.i = @ + 1]
                    /\ UNCHANGED <<gpc, lots_cache, pre_consumed, outcome>>
               ELSE /\ lots_cache' = loaded
                    /\ UNCHANGED results
                    /\ IF LotsEmpty(loaded[ticker])
                       THEN /\ outcome' = Err(NoPurchaseLots(ticker, sell.date), results)
                            /\ gpc' = "done"
                            /\ UNCHANGED <<frame, pre_consumed>>
                       ELSE IF ticker \notin pre_consumed
                       THEN /\ pre_consumed' = pre_consumed \cup {ticker}
                            /\ frame' = [frame EXCEPT !.prior = prior_sells]
                            /\ gpc' = IF prior_sells = <<>> THEN "match" ELSE "replay"
                            /\ UNCHANGED outcome
                       ELSE /\ gpc' = "match"
                            /\ UNCHANGED <<frame, pre_consumed, outcome>>
    /\ UNCHANGED <<trades, matched, previous>>
    /\ UNCHANGED fxvars

\* `for sell in prior_sells { match_sell_against_lots(..)?; }`: one replay
ReplayPriorSell ==
    /\ gpc = "replay"
    /\ LET ticker == frame.sells[frame.i].ticker
           sell == Head(frame.prior)
           m == match_sell_against_lots(ticker, lots_cache[ticker], sell.date,
                                        sell.quantity, sell.price, sell.fees)
       IN /\ lots_cache' = [lots_cache EXCEPT ![ticker] = m.lots]
          /\ matched' = Append(matched,
                 MatchCall(ticker, "prior", sell, lots_cache[ticker], m))
          /\ IF m.result.kind # "Ok"
             THEN /\ outcome' = Err(m.result, results)
                  /\ gpc' = "done"
                  /\ UNCHANGED frame
             ELSE /\ frame' = [frame EXCEPT !.prior = Tail(@)]
                  /\ gpc' = IF Tail(frame.prior) = <<>> THEN "match" ELSE "replay"
                  /\ UNCHANGED outcome
    /\ UNCHANGED <<trades, pre_consumed, results, previous>>
    /\ UNCHANGED fxvars

\* the target-year sell is matched and its row pushed
MatchTargetSell ==
    /\ gpc = "match"
    /\ LET row == frame.sells[frame.i]
           ticker == row.ticker
           sell == SellRecord(row.date, DecAbs(row.quantity), row.price, row.fees)
           m == match_sell_against_lots(ticker, lots_cache[ticker], sell.date,
                                        sell.quantity, sell.price, sell.fees)
       IN /\ lots_cache' = [lots_cache EXCEPT ![ticker] = m.lots]
          /\ matched' = Append(matched,
                 MatchCall(ticker, "target", sell, lots_cache[ticker], m))
          /\ IF m.result.kind # "Ok"
             THEN /\ outcome' = Err(m.result, results)
                  /\ gpc' = "done"
                  /\ UNCHANGED <<frame, results>>
             ELSE /\ results' = Append(results,
                        RealizedGainRow(ticker, row.date, CurrencyOf(ticker),
                                        m.result.value))
                  /\ frame' = [frame EXCEPT !.i = @ + 1]
                  /\ gpc' = "loop"
                  /\ UNCHANGED outcome
    /\ UNCHANGED <<trades, pre_consumed, previous>>
    /\ UNCHANGED fxvars

\* the call returns: its locals are dropped
Returned_gains ==
    /\ gpc = "done"
    /\ gpc' = "idle"
    /\ frame' = NoFrame
    /\ lots_cache' = NewLotsCache(lots_cache)
    /\ pre_consumed' = {}
    /\ results' = <<>>
    /\ outcome' = NoResult
    /\ matched' = <<>>
    /\ UNCHANGED trades
    /\ UNCHANGED fxvars

\* tax_cg takes the result, prints it and the process ends
GainsReturn ==
    /\ Returned_gains
    /\ UNCHANGED previous

\* a caller that keeps the result and goes on (the tests of portfolio.rs)
GainsKeepResult ==
    /\ Returned_gains
    /\ previous' = [year |-> frame.year, trades |-> trades, outcome |-> outcome]

\* record_trade: one row more in trades, its quantity made absolute
RecordTrade(date, ticker, quantity, price, fees, side) ==
    /\ gpc = "idle"
    /\ Cardinality(trades) < MaxTrades
    /\ Trade(date, ticker, DecAbs(quantity), price, fees, side) \notin trades
    /\ trades' = trades \cup {Trade(date, ticker, DecAbs(quantity), price, fees, side)}
    /\ previous' = NoPrevious
    /\ UNCHANGED <<gpc, frame, lots_cache, pre_consumed, results, outcome, matched>>
    /\ UNCHANGED fxvars

(***************************************************************************)
(* SpecLots: `moneyclip portfolio tax` on the trades of one ticker, with   *)
(* quantities and fees whose pro-rata shares are not exact decimals.       *)
(* SpecGains: the same on two tickers, with zero and negative quantities.  *)
(***************************************************************************)
RECURSIVE TradeTablesOver(_, _)
\* the sets of at most n rows of R
TradeTablesOver(R, n) ==
    IF n = 0 THEN {{}}
    ELSE LET smaller == TradeTablesOver(R, n - 1)
         IN smaller \cup {T \cup {r} : T \in smaller, r \in R}

\* unit prices small enough that no sum the matcher forms outgrows the
\* 96-bit mantissa of a Decimal at 28 fractional digits
PriceOf(side) == IF side = "buy" THEN <<1, 1>> ELSE <<2, 1>>

\* buys without and with fees, sells with fees
LotRows ==
    {Trade(d, "ABC", <<q, 1>>, PriceOf("buy"), <<f, 1>>, "buy") :
        d \in Days, q \in {1, 2, 3}, f \in {0, 3}}
    \cup {Trade(d, "ABC", <<q, 1>>, PriceOf("sell"), <<3, 1>>, "sell") :
        d \in Days, q \in {1, 2, 3}}

GainRows ==
    {Trade(d, k, <<q, 1>>, PriceOf(side), ZERO, side) :
        d \in Days, k \in Tickers, q \in {-2, 0, 1}, side \in {"buy", "sell"}}

InitPortfolio ==
    /\ table = [db \in DBs |-> {}]
    /\ conn = [c \in Conns |-> IF c = 1 THEN Opened(1, 1) ELSE Closed]
    /\ created = 1
    /\ CacheEmpty
    /\ GainsIdle
    /\ previous = NoPrevious

InitLots ==
    /\ trades \in TradeTablesOver(LotRows, MaxTrades)
    /\ InitPortfolio

NextLots ==
    \/ RealizedGainsBegin(2)
    \/ GainsNextSell
    \/ ReplayPriorSell
    \/ MatchTargetSell
    \/ GainsReturn

SpecLots == InitLots /\ [][NextLots]_vars

InitGains ==
    /\ trades \in TradeTablesOver(GainRows, MaxTrades)
    /\ InitPortfolio

NextGains ==
    \/ \E year \in Years : RealizedGainsBegin(year)
    \/ GainsNextSell
    \/ ReplayPriorSell
    \/ MatchTargetSell
    \/ GainsReturn

SpecGains == InitGains /\ [][NextGains]_vars

(***************************************************************************)
(* Reference notions of the lot-matching claims.                           *)
(***************************************************************************)
Calls == {matched[n] : n \in 1..Len(matched)}

\* what call m took from lot i
Used_qty(m, i) == DecSub(m.before[i].remaining, m.after[i].remaining)

RECURSIVE Consumed(_, _)
\* what call m took from the lots 1..i together
Consumed(m, i) == IF i = 0 THEN ZERO ELSE DecAdd(Consumed(m, i - 1), Used_qty(m, i))

Unfilled(m) == DecLt(Consumed(m, Len(m.before)), m.sell.quantity)

DecMin(a, b) == IF DecLt(a, b) THEN a ELSE b

\* the gain of `use` units of `lot` sold by `sell`, as the sum is stated:
\* (sell.price*use - sell.fees*use/sell.quantity)
\*   - (lot.price*use + lot.fees*use/lot.original_qty)
StatedTerm(sell, lot, use) ==
    DecSub(DecSub(DecMul(sell.price, use),
                  DecDiv(DecMul(sell.fees, use), sell.quantity)),
           DecAdd(DecMul(lot.price, use),
                  DecDiv(DecMul(lot.fees, use), lot.original_qty)))

\* the same with each pro-rata share formed as the fee times the quotient:
\* (sell.price*use - sell.fees*(use/sell.quantity))
\*   - (lot.price*use + lot.fees*(use/lot.original_qty))
QuotientFirstTerm(sell, lot, use) ==
    DecSub(DecSub(DecMul(sell.price, use),
                  DecMul(sell.fees, DecDiv(use, sell.quantity))),
           DecAdd(DecMul(lot.price, use),
                  DecMul(lot.fees, DecDiv(use, lot.original_qty))))

RECURSIVE QuotientFirstGain(_, _, _, _, _)
\* the sum of those terms, accumulated in list order from lot i on
QuotientFirstGain(lots, i, sell, to_fill, sum) ==
    IF i > Len(lots) \/ IsZero(to_fill) THEN sum
    ELSE IF lots[i].date > sell.date \/ IsZero(lots[i].remaining)
    THEN QuotientFirstGain(lots, i + 1, sell, to_fill, sum)
    ELSE LET use == DecMin(to_fill, lots[i].remaining)
         IN QuotientFirstGain(lots, i + 1, sell, DecSub(to_fill, use),
                              DecAdd(sum, QuotientFirstTerm(sell, lots[i], use)))

RECURSIVE StatedGain(_, _, _, _)
\* the stated sum over the lots from i on, with `to_fill` still to fill
StatedGain(lots, i, sell, to_fill) ==
    IF i > Len(lots) \/ IsZero(to_fill) THEN ZERO
    ELSE IF lots[i].date > sell.date \/ IsZero(lots[i].remaining)
    THEN StatedGain(lots, i + 1, sell, to_fill)
    ELSE LET use == DecMin(to_fill, lots[i].remaining)
         IN DecAdd(StatedTerm(sell, lots[i], use),
                   StatedGain(lots, i + 1, sell, DecSub(to_fill, use)))

(***************************************************************************)
(* Claims about match_sell_against_lots (SpecLots).                        *)
(***************************************************************************)
\* C12: no call of match_sell_against_lots reduces the remaining quantity
\* of a lot dated after the sell date, also when the lots dated on or
\* before the sell date cannot fill the sell.
C12_NoFutureLotConsumed ==
    \A m \in Calls : \A i \in 1..Len(m.before) :
        m.before[i].date > m.sell.date =>
            m.after[i].remaining = m.before[i].remaining

\* C12 witness: a call that took what the lots up to the sell date had,
\* could not fill the sell, and left a later lot with quantity untouched.
C12_Witness ==
    \E m \in Calls :
        /\ m.result.kind = "InsufficientLots"
        /\ \E i \in 1..Len(m.before) : DecGt(Used_qty(m, i), ZERO)
        /\ \E i \in 1..Len(m.before) :
               m.before[i].date > m.sell.date /\ DecGt(m.after[i].remaining, ZERO)

\* C13: lots are consumed first-in-first-out: at every point of a run a lot
\* of a ticker's list is below its original quantity only if every lot
\* before it in the list has remaining quantity 0.
C13_FifoOrder ==
    \A k \in DOMAIN lots_cache :
        \A i, j \in 1..Len(lots_cache[k]) :
            (i < j /\ DecLt(lots_cache[k][j].remaining, lots_cache[k][j].original_qty))
                => IsZero(lots_cache[k][i].remaining)

\* C13 witness: after a sell, the second lot of a list is partly or wholly
\* consumed and the first lot is exhausted.
C13_Witness ==
    \E k \in DOMAIN lots_cache :
        /\ Len(lots_cache[k]) >= 2
        /\ IsZero(lots_cache[k][1].remaining)
        /\ DecLt(lots_cache[k][2].remaining, lots_cache[k][2].original_qty)

\* C14: across the calls of one run, calls that end in an error included,
\* every lot keeps 0 <= remaining <= original quantity and no call raises
\* the remaining quantity of a lot.
C14_RemainingBounded ==
    /\ \A k \in DOMAIN lots_cache : \A i \in 1..Len(lots_cache[k]) :
           /\ DecLe(ZERO, lots_cache[k][i].remaining)
           /\ DecLe(lots_cache[k][i].remaining, lots_cache[k][i].original_qty)
    /\ \A m \in Calls : \A i \in 1..Len(m.before) :
           /\ DecLe(m.after[i].remaining, m.before[i].remaining)
           /\ DecLe(ZERO, m.after[i].remaining)
           /\ m.after[i].original_qty = m.before[i].original_qty

\* C14 witness: a call that ended in an error after it had reduced a lot.
C14_Witness ==
    \E m \in Calls :
        /\ m.result.kind # "Ok"
        /\ \E i \in 1..Len(m.before) : DecGt(Used_qty(m, i), ZERO)

\* C15: the gain a successful call returns is the sum, over the lots it
\* consumed in list order with use_qty = min(still to fill, lot.remaining),
\* of (sell.price*use_qty - sell.fees*use_qty/sell.quantity)
\*  - (lot.price*use_qty + lot.fees*use_qty/lot.original_qty).
C15_GainIsStatedSum ==
    \A m \in Calls :
        m.result.kind = "Ok" =>
            m.result.value = StatedGain(m.before, 1, m.sell, m.sell.quantity)

\* C15 as amended: the gain a successful call returns is the sum, over the
\* lots it consumed in list order with use_qty = min(still to fill,
\* lot.remaining), of (sell.price*use_qty - sell.fees*(use_qty/sell.quantity))
\*  - (lot.price*use_qty + lot.fees*(use_qty/lot.original_qty)), each
\* quotient being the rounded Decimal quotient, taken before the product.
C15_GainIsQuotientFirstSum ==
    \A m \in Calls :
        m.result.kind = "Ok" =>
            m.result.value = QuotientFirstGain(m.before, 1, m.sell, m.sell.quantity, ZERO)

\* C15 witness: a successful call that consumed two lots and whose pro-rata
\* shares are not exact, so that the gain differs from the sum as stated.
C15_Witness ==
    \E m \in Calls :
        /\ m.result.kind = "Ok"
        /\ Len(m.before) >= 2
        /\ DecGt(Used_qty(m, 1), ZERO) /\ DecGt(Used_qty(m, 2), ZERO)
        /\ m.result.value # StatedGain(m.before, 1, m.sell, m.sell.quantity)

\* C16: a call that leaves part of the sell unfilled fails, with
\* NoEligibleLots when no lot of the list is dated on or before the sell
\* date and with InsufficientLots when there is such a lot, available or
\* exhausted; a call that returns a gain has filled the whole sell.
C16_UnfilledSellFails ==
    \A m \in Calls :
        /\ m.result.kind = "Ok" => ~Unfilled(m)
        /\ Unfilled(m) =>
               IF \E i \in 1..Len(m.before) : m.before[i].date <= m.sell.date
               THEN m.result = InsufficientLots(m.ticker, m.sell.date)
               ELSE m.result = NoEligibleLots(m.ticker, m.sell.date)

\* C16 witness: a sell that finds its only earlier lot exhausted fails with
\* InsufficientLots.
C16_Witness ==
    \E m \in Calls :
        /\ m.result.kind = "InsufficientLots"
        /\ \A i \in 1..Len(m.before) :
               m.before[i].date <= m.sell.date => IsZero(m.before[i].remaining)

(***************************************************************************)
(* Reference notions of the claims about realized_gains.                   *)
(***************************************************************************)
\* the sell trades of ticker k dated in the target year of the run
YearSells(k) ==
    {t \in trades : t.ticker = k /\ t.side = "sell" /\ YearOf(t.date) = frame.year}

\* the sell trades of ticker k dated before 1 January of the target year
PriorSells(k) ==
    {t \in trades : t.ticker = k /\ t.side = "sell" /\ t.date < YearStart(frame.year)}

NonZero(S) == {t \in S : ~IsZero(t.quantity)}

\* ticker k has no buy lot: no buy trade of non-zero quantity
NoBuyLots(k) ==
    \A t \in trades : (t.ticker = k /\ t.side = "buy") => IsZero(t.quantity)

\* the positions in `matched` of the calls of ticker k in the given phase
CallsAt(k, phase) ==
    {n \in 1..Len(matched) : matched[n].ticker = k /\ matched[n].phase = phase}

Min(S) == CHOOSE x \in S : \A y \in S : x <= y
Max(S) == CHOOSE x \in S : \A y \in S : y <= x

\* (ticker, date) of a is not after that of b in ORDER BY a.ticker, t.date
NotAfter(ka, da, kb, db) ==
    TickerRank[ka] < TickerRank[kb] \/ (ka = kb /\ da <= db)

C18_NoLotsTickerFails ==
    gpc = "done" =>
        \A k \in Tickers :
            (NoBuyLots(k) /\ YearSells(k) # {}) =>
                /\ outcome.kind \in {"NoEligibleLots", "InsufficientLots"}
                /\ \/ outcome.kind = "NoEligibleLots" /\ outcome.ticker = k
                   \/ TickerRank[outcome.ticker] < TickerRank[k]

\* C18 as amended: a ticker with a target-year sell of non-zero quantity and
\* no buy lot makes realized_gains fail, and so return no row: with
\* NoEligibleLots for that ticker at its first such sell, unless a sell of
\* a ticker earlier in ticker order has failed before.
C18_NoLotsNonZeroSellFails ==
    gpc = "done" =>
        \A k \in Tickers :
            (NoBuyLots(k) /\ NonZero(YearSells(k)) # {}) =>
                /\ outcome.kind \in {"NoEligibleLots", "InsufficientLots"}
                /\ \/ /\ outcome.kind = "NoEligibleLots"
                      /\ outcome.ticker = k
                      /\ outcome.date = Min({t.date : t \in NonZero(YearSells(k))})
                   \/ TickerRank[outcome.ticker] < TickerRank[k]

\* C18 witness: the call failed for a ticker without lots at a sell of
\* non-zero quantity, after a zero-quantity sell of the same ticker had been
\* given its row in the local result list.
C18_Witness ==
    /\ gpc = "done"
    /\ outcome.kind = "NoEligibleLots"
    /\ NoBuyLots(outcome.ticker)
    /\ \E n \in 1..Len(results) : results[n].ticker = outcome.ticker

\* C19: a successful realized_gains returns one row per sell trade dated in
\* the year, in ticker order and by ascending sell date within a ticker,
\* and the sells were matched in that order.
C19_OneRowPerSellInOrder ==
    (gpc = "done" /\ outcome.kind = "Ok") =>
        LET rows == outcome.value
            target == {n \in 1..Len(matched) : matched[n].phase = "target"}
        IN /\ \A k \in Tickers, d \in Days :
                  Cardinality({n \in 1..Len(rows) :
                                  rows[n].ticker = k /\ rows[n].sell_date = d})
                      = Cardinality({t \in YearSells(k) : t.date = d})
           /\ \A i, j \in 1..Len(rows) :
                  i < j => NotAfter(rows[i].ticker, rows[i].sell_date,
                                    rows[j].ticker, rows[j].sell_date)
           /\ Cardinality(target)
                  = Cardinality(UNION {NonZero(YearSells(k)) : k \in Tickers})
           /\ \A i, j \in target :
                  i < j => NotAfter(matched[i].ticker, matched[i].sell.date,
                                    matched[j].ticker, matched[j].sell.date)

\* C19 witness: a successful call returned rows of both tickers, one of
\* them of a matched sell.
C19_Witness ==
    /\ gpc = "done"
    /\ outcome.kind = "Ok"
    /\ \E i, j \in 1..Len(outcome.value) : outcome.value[i].ticker # outcome.value[j].ticker
    /\ \E n \in 1..Len(matched) : matched[n].phase = "target"

\* C20: the step of realized_gains that takes a target-year sell of
\* quantity 0 pushes a row with realized gain 0 for it and leaves every
\* lot, loaded or not, as it was; it does not end the call.
C20_ZeroSellZeroRow ==
    [][(gpc = "loop" /\ frame.i <= Len(frame.sells)
            /\ IsZero(frame.sells[frame.i].quantity))
        => /\ results' = Append(results,
                  RealizedGainRow(frame.sells[frame.i].ticker,
                                  frame.sells[frame.i].date,
                                  CurrencyOf(frame.sells[frame.i].ticker), ZERO))
           /\ lots_cache' = lots_cache
           /\ gpc' = "loop"
           /\ trades' = trades]_vars

\* C20 witness: a zero-quantity sell has been given its row while lots of
\* its ticker with quantity left are loaded.
C20_Witness ==
    /\ gpc = "loop"
    /\ frame.i > 1
    /\ IsZero(frame.sells[frame.i - 1].quantity)
    /\ Len(results) = frame.i - 1
    /\ IsZero(results[frame.i - 1].realized_gain)
    /\ frame.sells[frame.i - 1].ticker \in DOMAIN lots_cache
    /\ \E n \in 1..Len(lots_cache[frame.sells[frame.i - 1].ticker]) :
           DecGt(lots_cache[frame.sells[frame.i - 1].ticker][n].remaining, ZERO)

(***************************************************************************)
(* SpecPure: a caller that records trades of one ticker and calls          *)
(* realized_gains again and again, keeping each result.                    *)
(***************************************************************************)
\* the quantities `portfolio buy` and `portfolio sell` are given
PureQuantities == {<<-1, 1>>, <<2, 1>>}

NextPure ==
    \/ \E date \in Days, quantity \in PureQuantities, side \in {"buy", "sell"} :
           RecordTrade(date, "ABC", quantity, PriceOf(side), ZERO, side)
    \/ \E year \in Years : RealizedGainsBegin(year)
    \/ GainsNextSell
    \/ ReplayPriorSell
    \/ MatchTargetSell
    \/ GainsKeepResult

InitPure ==
    /\ trades = {}
    /\ InitPortfolio

SpecPure == InitPure /\ [][NextPure]_vars

\* C21: a call of realized_gains that follows a call for the same year with
\* no write to trades in between returns what that call returned: rows and
\* gains, or the error.
C21_RepeatedCallSameResult ==
    (gpc = "done" /\ previous.year = frame.year /\ previous.trades = trades)
        => outcome = previous.outcome

\* C21 witness: the second of two such calls has returned a gain, after it
\* and the call before it had each taken the whole of a lot.
C21_Witness ==
    /\ gpc = "done"
    /\ previous.year = frame.year
    /\ previous.trades = trades
    /\ previous.outcome.kind = "Ok"
    /\ outcome.kind = "Ok"
    /\ \E m \in Calls : \E i \in 1..Len(m.before) :
           /\ m.phase = "target"
           /\ DecGt(Used_qty(m, i), ZERO)
           /\ IsZero(m.after[i].remaining)

(***************************************************************************)
(* SpecSign: a trades table whose stored quantities change sign between    *)
(* the calls of realized_gains (rows written past record_trade, as the     *)
(* tests of portfolio.rs insert them).                                     *)
(***************************************************************************)
\* UPDATE trades SET quantity = -quantity for one row
NegateQuantity(t) ==
    /\ gpc = "idle"
    /\ t \in trades
    /\ t.quantity[1] > 0
    /\ trades' = (trades \ {t}) \cup {[t EXCEPT !.quantity = DecNeg(@)]}
    /\ UNCHANGED <<gpc, frame, lots_cache, pre_consumed, results, outcome, matched,
                   previous>>
    /\ UNCHANGED fxvars

\* buys of two units, sells of one
SignRows ==
    {Trade(d, "ABC", IF side = "buy" THEN <<2, 1>> ELSE ONE, PriceOf(side), ZERO, side) :
        d \in Days, side \in {"buy", "sell"}}

InitSign ==
    /\ trades \in TradeTablesOver(SignRows, MaxTrades)
    /\ InitPortfolio

NextSign ==
    \/ \E t \in trades : NegateQuantity(t)
    \/ RealizedGainsBegin(2)
    \/ GainsNextSell
    \/ ReplayPriorSell
    \/ MatchTargetSell
    \/ GainsKeepResult

SpecSign == InitSign /\ [][NextSign]_vars

\* the rows of T with every quantity replaced by its size
Unsigned(T) == {[t EXCEPT !.quantity = <<Abs(t.quantity[1]), t.quantity[2]>>] : t \in T}

\* C22: a call of realized_gains returns what the call before it for the
\* same year returned when the trades tables of the two calls differ only
\* in the sign of stored quantities, of buys, of sells of the year and of
\* sells before the year.
C22_SignOfQuantityIgnored ==
    (/\ gpc = "done"
     /\ previous.year = frame.year
     /\ previous.trades # trades
     /\ Unsigned(previous.trades) = Unsigned(trades))
        => outcome = previous.outcome

\* C22 witness: the call returned a gain on a table in which a buy, a sell
\* before the year and a sell of the year are stored with the sign opposite
\* to the one they had at the call before.
C22_Witness ==
    /\ gpc = "done"
    /\ previous.year = frame.year
    /\ outcome.kind = "Ok"
    /\ outcome = previous.outcome
    /\ \E b, p, y \in trades :
           /\ b.side = "buy" /\ p.side = "sell" /\ y.side = "sell"
           /\ p.date < YearStart(frame.year) /\ YearOf(y.date) = frame.year
           /\ \A t \in {b, p, y} : t.quantity[1] < 0 /\ t \notin previous.trades
    /\ \E n \in 1..Len(outcome.value) : ~IsZero(outcome.value[n].realized_gain)

(***************************************************************************)
(* SpecCodes: fx_convert called with currency codes as the callers hold    *)
(* them: `accounts add` upper-cases the code it stores and does not trim   *)
(* it, the reports pass the stored code on (reports.rs:48).                *)
(***************************************************************************)
RawCodes == {"USD", "usd", " USD", "CAD"}

\* code.trim().to_uppercase()
Normalized(code) ==
    CASE code = "usd" -> "USD"
      [] code = " USD" -> "USD"
      [] OTHER -> code

CodeTables == {{}, {Row(1, "USD", "CAD", <<4, 1>>)}}

InitCodes ==
    /\ \E T \in CodeTables : table = [db \in DBs |-> IF db = 1 THEN T ELSE {}]
    /\ conn = [c \in Conns |-> IF c = 1 THEN Opened(1, 1) ELSE Closed]
    /\ created = 1
    /\ InitCommon

NextCodes ==
    \/ \E date \in Dates, amount \in Amounts, from_ccy \in RawCodes, to_ccy \in RawCodes :
           FxConvertBegin(1, date, amount, from_ccy, to_ccy)
    \/ FxBuild(1)
    \/ FxStore(1)
    \/ FxReturn(1)

SpecCodes == InitCodes /\ [][NextCodes]_vars

\* C23: fx_convert treats codes that differ only in letter case or in
\* surrounding whitespace as the same currency: it returns the value (or
\* the kind of error) it returns for the trimmed, upper-cased codes, at the
\* from == to short-circuit and at the look-ups in the graph.
C23_CodesComparedNormalized ==
    \A c \in Conns :
        Returned(c) =>
            LET fresh == FxConvertFresh(TableOf(c), call[c].date, call[c].amount,
                                        Normalized(call[c].from), Normalized(call[c].to))
            IN IF fresh.kind = "Ok" THEN result[c] = fresh
               ELSE result[c].kind = fresh.kind

(***************************************************************************)
(* fetch_rates step by step: conn.transaction(), one stmt.execute for      *)
(* every fetched rate, tx.commit(). The connection is borrowed mutably     *)
(* for the whole of it, so no fx_convert runs on it in between.            *)
(***************************************************************************)
\* (PRAGMA data_version, sqlite3_total_changes) as connection k reads them
Stamp(k) == <<conn[k].data_version, conn[k].total_changes>>

ExecutedAutocommit(T, row) == Upserted(T, {row})

\* the committed table after a stmt.execute inside the open transaction
Executed(T, row) == T

\* let tx = conn.transaction()?; the fetched series is at hand
FetchBegin(c, rows) ==
    /\ pc[c] = "idle"
    /\ conn[c].open
    /\ UniqueKeys(rows)
    /\ conn[c].total_changes + Cardinality(rows) <= MaxChanges
    /\ \A k \in Conns \ {c} : pc[k] # "tx"
    /\ pc' = [pc EXCEPT ![c] = "tx"]
    /\ txn' = [txn EXCEPT ![c] = [todo |-> rows, written |-> {},
                                  stamps |-> [k \in Conns |-> Stamp(k)]]]
    /\ UNCHANGED <<table, conn, cache, call, result, recency, evicted, created, discarded>>
    /\ UNCHANGED pfvars

\* upserted += stmt.execute(params![&date, &base, &normalized_quote, &rate_str])?
FetchExecute(c) ==
    /\ pc[c] = "tx"
    /\ \E row \in txn[c].todo :
          /\ txn' = [txn EXCEPT ![c].todo = @ \ {row},
                                ![c].written = Upserted(@, {row})]
          /\ table' = [table EXCEPT ![conn[c].db] = Executed(@, row)]
    /\ conn' = [conn EXCEPT ![c].total_changes = @ + 1]
    /\ UNCHANGED <<cache, pc, call, result, recency, evicted, created, discarded>>
    /\ UNCHANGED pfvars

\* tx.commit()?: the rows reach the table, the other connections to the
\* database see a new PRAGMA data_version
FetchCommit(c) ==
    /\ pc[c] = "tx"
    /\ txn[c].todo = {}
    /\ table' = [table EXCEPT ![conn[c].db] = Upserted(@, txn[c].written)]
    /\ conn' = [k \in Conns |->
                  IF k # c /\ conn[k].open /\ conn[k].db = conn[c].db
                          /\ txn[c].written # {}
                  THEN [conn[k] EXCEPT !.data_version = @ + 1]
                  ELSE conn[k]]
    /\ pc' = [pc EXCEPT ![c] = "idle"]
    /\ txn' = [txn EXCEPT ![c] = NoTxn]
    /\ UNCHANGED <<cache, call, result, recency, evicted, created, discarded>>
    /\ UNCHANGED pfvars

\* decimal_string(rate)? fails on a fetched rate: fetch_rates returns the
\* error and the transaction is rolled back as `tx` is dropped
FetchAbort(c) ==
    /\ pc[c] = "tx"
    /\ txn[c].todo # {}
    /\ pc' = [pc EXCEPT ![c] = "idle"]
    /\ txn' = [txn EXCEPT ![c] = NoTxn]
    /\ UNCHANGED <<table, conn, cache, call, result, recency, evicted, created, discarded>>
    /\ UNCHANGED pfvars

(***************************************************************************)
(* SpecFetch: connection 1 fetches rates, connection 2 to the same         *)
(* database converts meanwhile.                                            *)
(***************************************************************************)
FetchRows == {Row(1, "USD", q, <<4, 1>>) : q \in {"CAD", "GBP"}}
FetchBatches == SUBSET FetchRows

NextFetch ==
    \/ \E rows \in FetchBatches : FetchBegin(1, rows)
    \/ FetchExecute(1)
    \/ FetchCommit(1)
    \/ FetchAbort(1)
    \/ \E c \in Conns :
        \/ \E amount \in CallAmounts, to_ccy \in {"CAD", "GBP"} :
               FxConvertBegin(c, 1, amount, "USD", to_ccy)
        \/ FxBuild(c)
        \/ FxStore(c)
        \/ FxReturn(c)

SpecFetch == InitRace /\ [][NextFetch]_vars

\* the transaction of c has advanced the stamp of k since it began
Advanced(c, k) == Stamp(k) # txn[c].stamps[k]

\* the step ends the transaction of c with a commit
Commits(c) == pc[c] = "tx" /\ pc'[c] # "tx" /\ txn[c].todo = {}

\* C24: fetch_rates writes all rows inside one transaction (the table the
\* other connections read changes at the commit only, by all rows at once)
\* and the stamp (data_version, total_changes) of a connection advances
\* once per batch: a stamp the batch has advanced does not advance again
\* within the batch.
C24_StampAdvancesOncePerBatch ==
    [][\A c \in Conns : (pc[c] = "tx" /\ txn'[c] # txn[c]) =>
          /\ table' = IF Commits(c)
                      THEN [table EXCEPT ![conn[c].db] = Upserted(@, txn[c].written)]
                      ELSE table
          /\ \A k \in Conns : Advanced(c, k) =>
                 <<conn'[k].data_version, conn'[k].total_changes>> = Stamp(k)]_vars

\* C24 as amended: fetch_rates writes all rows inside one transaction (the
\* table the other connections read changes at the commit only, by all rows
\* at once); the stamp of every other connection to the database advances
\* exactly once per batch that commits a row, at the commit, in its
\* data_version, and not at all when the batch is rolled back; the stamp of
\* the writing connection advances in its total_changes with every row
\* inserted, inside the transaction.
C24_OthersAdvanceOncePerBatch ==
    [][\A c \in Conns : (pc[c] = "tx" /\ txn'[c] # txn[c]) =>
          /\ pc'[c] = "tx" =>
                /\ table' = table
                /\ \A k \in Conns \ {c} : conn'[k] = conn[k]
                /\ conn'[c] = [conn[c] EXCEPT !.total_changes = @ + 1]
          /\ Commits(c) =>
                /\ table' = [table EXCEPT ![conn[c].db] = Upserted(@, txn[c].written)]
                /\ conn'[c] = conn[c]
                /\ \A k \in Conns \ {c} :
                      conn'[k] = IF txn[c].written # {} /\ conn[k].db = conn[c].db
                                 THEN [conn[k] EXCEPT !.data_version = @ + 1]
                                 ELSE conn[k]
          /\ (pc'[c] # "tx" /\ ~Commits(c)) => (table' = table /\ conn' = conn)]_vars

\* C24 witness: a batch of two rows has been committed: both rows are in
\* the table, the writing connection counts two changes and the other
\* connection has seen one new data_version.
C24_Witness ==
    /\ pc[1] = "idle"
    /\ table[1] = FetchRows
    /\ Cardinality(FetchRows) >= 2
    /\ conn[1].total_changes = Cardinality(FetchRows)
    /\ conn[2].data_version = 2

(***************************************************************************)
(* SpecGraph: build_fx_graph on rate tables with several rows of a pair,   *)
(* rows of a pair and of its inverse, and rows dated after the as-of date. *)
(***************************************************************************)
GraphPairs == {<<"USD", "CAD">>, <<"CAD", "USD">>, <<"USD", "GBP">>}
\* the rows reach one day past the latest as-of date asked for
GraphKeys == (1..(MaxDate + 1)) \X GraphPairs

InitGraph ==
    /\ \E T \in TablesOver(GraphKeys, MaxRows) :
           table = [db \in DBs |-> IF db = 1 THEN T ELSE {}]
    /\ conn = [c \in Conns |-> IF c = 1 THEN Opened(1, 1) ELSE Closed]
    /\ created = 1
    /\ InitCommon

NextGraph ==
    \/ \E date \in Dates, amount \in CallAmounts : FxConvertBegin(1, date, amount, "USD", "CAD")
    \/ FxBuild(1)

SpecGraph == InitGraph /\ [][NextGraph]_vars

\* the dates, on or before d, of the rows of T for the pair (b, q)
PairDates(T, b, q, d) == {r.date : r \in {x \in T : x.base = b /\ x.quote = q /\ x.date <= d}}

\* the rates of the rows of T for (b, q) dated at the latest such date
LatestRates(T, b, q, d) ==
    IF PairDates(T, b, q, d) = {} THEN {}
    ELSE {r.rate : r \in {x \in T : x.base = b /\ x.quote = q
                                    /\ x.date = Max(PairDates(T, b, q, d))}}

\* how many arcs u -> v of weight w the graph g holds
ArcCount(g, u, v, w) ==
    IF u \notin DOMAIN g.currency_index \/ v \notin DOMAIN g.currency_index THEN 0
    ELSE LET arcs == g.adjacency[g.currency_index[u]]
         IN Cardinality({i \in 1..Len(arcs) : arcs[i] = <<g.currency_index[v], w>>})

\* the weights an arc can carry: a stored rate or the reciprocal of one
Weights == (Rates \ {ZERO}) \cup {<<r[2], r[1]>> : r \in Rates \ {ZERO}}

\* C25: the graph build_fx_graph returns for the as-of date d holds, for
\* every (base, quote) with a row dated on or before d, one forward arc
\* base -> quote weighted with the rate of the latest such row and one
\* reverse arc quote -> base weighted 1/rate, and no other arc: the rows
\* dated after d and the older rows of a pair leave no trace in it.
C25_LatestRowPerPair ==
    \A c \in Conns :
        pc[c] = "store" =>
            LET g == call[c].graph
                T == TableOf(c)
                d == call[c].date
            IN /\ \A u \in Currencies, v \in Currencies, w \in Weights :
                      ArcCount(g, u, v, w) =
                          (IF w \in LatestRates(T, u, v, d) THEN 1 ELSE 0)
                          + (IF <<w[2], w[1]>> \in LatestRates(T, v, u, d) THEN 1 ELSE 0)
               /\ \A i \in 1..Len(g.adjacency) : \A n \in 1..Len(g.adjacency[i]) :
                      g.adjacency[i][n][2] \in Weights
               /\ DOMAIN g.currency_index =
                      {u \in Currencies : \E v \in Currencies :
                          PairDates(T, u, v, d) # {} \/ PairDates(T, v, u, d) # {}}
               /\ \A u, v \in DOMAIN g.currency_index :
                      g.currency_index[u] = g.currency_index[v] => u = v

\* C25 witness: a graph built for an as-of date with a row of a pair dated
\* after it, an older and a later row of a pair on or before it, with
\* different rates.
C25_Witness ==
    /\ pc[1] = "store"
    /\ \E r \in TableOf(1) : r.date > call[1].date
    /\ \E r, o \in TableOf(1) :
          /\ r.base = o.base /\ r.quote = o.quote
          /\ o.date < r.date /\ r.date <= call[1].date
          /\ o.rate # r.rate

(***************************************************************************)
(* SpecStale: fx_convert calls on one connection for several as-of dates,  *)
(* with single-row writes between them and during them, from the same      *)
(* connection (total_changes moves) and from a second connection to the    *)
(* same database (data_version moves).                                     *)
(***************************************************************************)
\* the row each connection writes: the same key, another rate
StaleBatch(k) == {Row(1, "USD", "CAD", IF k = 1 THEN <<1, 2>> ELSE <<4, 1>>)}

NextStale ==
    \/ \E k \in Conns : InsertRates(k, StaleBatch(k))
    \/ \E date \in Dates, amount \in CallAmounts :
           FxConvertBegin(1, date, amount, "USD", "CAD")
    \/ FxBuild(1)
    \/ FxStore(1)
    \/ FxReturn(1)

SpecStale == InitRace /\ [][NextStale]_vars

\* C26: when the write path of fx_graph_for finds the stamp of the entry
\* different from the connection's (data_version, total_changes), the
\* graphs of every date cached under the old stamp are gone after the
\* call: the entry holds the newly built graph only, its recency queue
\* that date only, and a call for any other date that was cached misses.
C26_StaleEntryDiscarded ==
    \A c \in Conns :
        (pc[c] = "done" /\ call[c].served = "miss" /\ discarded # {}) =>
            LET conn_key == conn[c].handle
                entry == cache[conn_key]
            IN /\ DOMAIN entry.graphs = {call[c].date}
               /\ entry.order = <<call[c].date>>
               /\ entry.graphs[call[c].date] = call[c].graph
               /\ \A d \in discarded \ {call[c].date} :
                      ~IsHit(conn_key, conn[c].data_version, conn[c].total_changes, d)

\* C26 witness: a call has stored its graph in an entry that held, under
\* an older stamp, a graph for another date and one for the same date.
C26_Witness ==
    /\ pc[1] = "done"
    /\ call[1].served = "miss"
    /\ call[1].date \in discarded
    /\ discarded \ {call[1].date} # {}

\* the handles whose entry holds a graph for the date d
Holders(d) == {k \in DOMAIN cache : d \in DOMAIN cache[k].graphs}

\* how often the date d stands in the recency queue of handle k
Queued(k, d) == Cardinality({i \in 1..Len(cache[k].order) : cache[k].order[i] = d})

\* C27: when two fx_graph_for calls for the same store and date have both
\* missed and both built, both complete and the cache afterwards holds
\* exactly one graph for that date, the last writer's, with the date once
\* in the recency order. Two calls can only overlap on two connections
\* (SpecRace); the store they share is the database.
C27_OneGraphAfterRace ==
    \A c1 \in Conns, c2 \in Conns :
        ( /\ c1 # c2
          /\ conn[c1].db = conn[c2].db
          /\ pc[c1] = "done" /\ pc[c2] = "done"
          /\ call[c1].served = "miss" /\ call[c2].served = "miss"
          /\ call[c1].date = call[c2].date
          /\ result[c1].kind # "InvalidRate" /\ result[c2].kind # "InvalidRate" )
        => /\ Cardinality(Holders(call[c1].date)) = 1
           /\ \A k \in Holders(call[c1].date) : Queued(k, call[c1].date) = 1

\* C28: on a rate table whose rates are all positive, mutually inconsistent
\* ones included (a cycle of arcs whose weights multiply to more than 1),
\* the search loop of fx_convert ends after finitely many pops in one of
\* two ways: the amount at the target is returned, or the call fails with
\* NotConvertible.
C28_SearchLoopReturns ==
    \A c \in Conns :
        ( /\ pc[c] = "done"
          /\ call[c].from # call[c].to
          /\ \A r \in TableOf(c) : DecGt(r.rate, ZERO) )
        => result[c].kind \in {"Ok", "NotConvertible"}

\* C29: realized_gains is all-or-nothing: when its check for lots or a
\* match fails at any sell of any ticker, a target-year sell or a replayed
\* prior-year sell, the call returns that error and nothing else: no row,
\* however many rows of earlier sells and tickers it had collected; rows
\* are returned only when every sell went through, and then all of them.
C29_AllOrNothing ==
    gpc = "done" =>
        LET failed == {n \in 1..Len(matched) : matched[n].result.kind # "Ok"}
        IN /\ \A n \in failed : outcome = matched[n].result
           /\ outcome.kind # "Ok" =>
                  /\ outcome.kind \in {"NoEligibleLots", "InsufficientLots"}
                  /\ "value" \notin DOMAIN outcome
           /\ outcome.kind = "Ok" =>
                  /\ failed = {}
                  /\ outcome.value = results
                  /\ Len(results) = Len(frame.sells)

\* C29 witness: the call failed at a sell of the later ticker after the
\* sells of the earlier ticker had been matched and given their rows.
C29_Witness ==
    /\ gpc = "done"
    /\ outcome.kind # "Ok"
    /\ \E n \in 1..Len(matched) :
          /\ matched[n].phase = "target"
          /\ matched[n].result.kind = "Ok"
          /\ matched[n].ticker # outcome.ticker
          /\ \E i \in 1..Len(results) :
                 /\ results[i].ticker = matched[n].ticker
                 /\ ~IsZero(results[i].realized_gain)

\* C30: after every fx_graph_for call, in every entry of FX_GRAPH_CACHE the
\* recency queue `order` holds exactly the dates that are keys of `graphs`,
\* each of them once.
C30_OrderMatchesGraphs ==
    \A h \in DOMAIN cache :
        /\ {cache[h].order[i] : i \in 1..Len(cache[h].order)} = DOMAIN cache[h].graphs
        /\ \A i, j \in 1..Len(cache[h].order) :
               cache[h].order[i] = cache[h].order[j] => i = j

\* C30 witness: a call has inserted its date into a full entry; the front
\* of the queue was evicted, the date of the call stands at its back.
C30_Witness ==
    /\ pc[1] = "done"
    /\ call[1].served = "miss"
    /\ \E e \in evicted : e[1] \notin DOMAIN cache[1].graphs
    /\ Len(cache[1].order) = MAX_FX_GRAPH_CACHE_DATES
    /\ cache[1].order[Len(cache[1].order)] = call[1].date

====
